---- MODULE Spec2Model ----
(***************************************************************************)
(* A model of compressible/weno_euler.py: the 1-d grid with ghost cells    *)
(* (Grid1d), the WENO reconstruction (weno) and the RK4 driver of the      *)
(* Euler equations (WENOSimulation).                                       *)
(*                                                                         *)
(* Arithmetic.  The program computes in float64.  The model computes every *)
(* +, -, * and / of the program exactly, in the rationals taken modulo the *)
(* prime Modulus: a value is a residue 0..Modulus-1, or NaN.  Every        *)
(* identity between rational expressions of the program holds between      *)
(* their residues, and two residues that differ are the residues of two    *)
(* different rationals.  A division by zero gives NaN (float64 gives inf   *)
(* or nan there; the model keeps one non-number), and NaN propagates       *)
(* through every operation as in float64.  Rounding is not modelled.       *)
(* The order of the reals (sign, max, sqrt) does not exist on residues;    *)
(* where the program uses it the model says so at the definition.          *)
(***************************************************************************)
EXTENDS Integers, Sequences, FiniteSets, TLC

\* the prime modulus of the exact arithmetic (not a bound: a prime)
Modulus == 10000 + 7

\* numpy.nan, and inf with it: the one non-number
NaN == 0 - 1

RECURSIVE PowMod(_, _)
PowMod(a, n) ==
  IF n = 0 THEN 1
  ELSE LET h == PowMod(a, n \div 2)
           s == (h * h) % Modulus
       IN IF n % 2 = 0 THEN s ELSE (s * a) % Modulus

\* f itself, as a table of its values (f @@ <<>> = f)
vec(f) == f @@ << >>

\* the inverses of the nonzero residues
InvTab == vec([b \in 1 .. Modulus - 1 |-> PowMod(b, Modulus - 2)])

Add(a, b) == IF a = NaN \/ b = NaN THEN NaN ELSE (a + b) % Modulus
Sub(a, b) == IF a = NaN \/ b = NaN THEN NaN ELSE (a - b) % Modulus
Mul(a, b) == IF a = NaN \/ b = NaN THEN NaN ELSE (a * b) % Modulus
Div(a, b) == IF a = NaN \/ b = NaN \/ b = 0 THEN NaN ELSE (a * InvTab[b]) % Modulus

\* the number n/d (integers, d # 0 modulo Modulus)
Rat(n, d) == Div(n % Modulus, d % Modulus)

\* sum of f[i] over i in lo..hi
RECURSIVE SumF(_, _, _)
SumF(f, lo, hi) == IF lo > hi THEN 0 ELSE Add(f[lo], SumF(f, lo + 1, hi))

\* the 3 x n array whose entry [c][i] is F(c, i)
array(n, F(_, _)) == vec([c \in 0 .. 2 |-> vec([i \in 0 .. n - 1 |-> F(c, i)])])

\* q.shape[1]
ncols(a) == Cardinality(DOMAIN a[0])

(***************************************************************************)
(* weno_coefficients (imported at line 4, not among the source files):     *)
(* the tables C_all, a_all and sigma_all of the orders 2 and 3, as the     *)
(* integer numerators over one denominator per table.                      *)
(***************************************************************************)
Orders == {2, 3}

C_num(order) ==
  IF order = 2 THEN << 1, 2 >> ELSE << 1, 6, 3 >>
C_den(order) == IF order = 2 THEN 3 ELSE 10

a_num(order) ==
  IF order = 2
  THEN << << 3, -1 >>,
          << 1,  1 >> >>
  ELSE << << 11, -7,  2 >>,
          <<  2,  5, -1 >>,
          << -1,  5,  2 >> >>
a_den(order) == IF order = 2 THEN 2 ELSE 6

sigma_num(order) ==
  IF order = 2
  THEN << << << 1, 0 >>, << -2, 1 >> >>,
          << << 1, 0 >>, << -2, 1 >> >> >>
  ELSE << << << 10, 0, 0 >>, << -31, 25, 0 >>, << 11, -19,  4 >> >>,
          << <<  4, 0, 0 >>, << -13, 13, 0 >>, <<  5, -13,  4 >> >>,
          << <<  4, 0, 0 >>, << -19, 25, 0 >>, << 11, -31, 10 >> >> >>
sigma_den(order) == IF order = 2 THEN 1 ELSE 3

\* C[k], a[k, l], sigma[k, l, m] with the program's zero-based indices
C_all(order, k) == Rat(C_num(order)[k + 1], C_den(order))
a_all(order, k, l) == Rat(a_num(order)[k + 1][l + 1], a_den(order))
sigma_all(order, k, l, m) ==
  Rat(sigma_num(order)[k + 1][l + 1][m + 1], sigma_den(order))

(***************************************************************************)
(* weno(order, q): q is a 3 x n array, q[nv][i] with nv in 0..2, i in      *)
(* 0..n-1.                                                                 *)
(***************************************************************************)
\* epsilon = 1e-16
epsilon == PowMod(Rat(1, 10), 16)

\* a variant of wenoRange: the loop on i starts one cell late
wenoRange_late(order, n) == order + 1 .. (n - 2 * order) + order - 1

\* the indices i of  for i in range(order, np+order), np = q.shape[1] - 2*order
wenoRange(order, n) == order .. (n - 2 * order) + order - 1

\* what the loops on l and m add to beta[k, i] for the component nv:
\*   for l in range(order): for m in range(l+1):
\*     beta[k, i] += sigma[k, l, m] * q[nv, i+k-l] * q[nv, i+k-m]
betaIncrement(order, q, nv, k, i) ==
  LET inner == vec([l \in 0 .. order - 1 |->
                 SumF(vec([m \in 0 .. l |->
                        Mul(Mul(sigma_all(order, k, l, m), q[nv][i + k - l]),
                            q[nv][i + k - m])]),
                      0, l)])
  IN SumF(inner, 0, order - 1)

\* beta[k, i] as it stands when alpha[k] is computed for the component nv:
\* beta is allocated once, before the loop on nv, and never reset, so the
\* increments of the components 0..nv have all been added to it
RECURSIVE betaAt(_, _, _, _, _)
betaAt(order, q, nv, k, i) ==
  IF nv = 0 THEN betaIncrement(order, q, 0, k, i)
  ELSE Add(betaAt(order, q, nv - 1, k, i), betaIncrement(order, q, nv, k, i))

\* qL[nv, i] for i in the loop's range, beta being beta[:, i] at that point
wenoValue(order, q, nv, i, beta) ==
  LET alpha == vec([k \in 0 .. order - 1 |->
                  Div(C_all(order, k), Add(epsilon, Mul(beta[k], beta[k])))])
      q_stencils == vec([k \in 0 .. order - 1 |->
                  SumF(vec([l \in 0 .. order - 1 |->
                          Mul(a_all(order, k, l), q[nv][i + k - l])]),
                       0, order - 1)])
      sum_alpha == SumF(alpha, 0, order - 1)
      w == vec([k \in 0 .. order - 1 |-> Div(alpha[k], sum_alpha)])
  IN SumF(vec([k \in 0 .. order - 1 |-> Mul(w[k], q_stencils[k])]), 0, order - 1)

wenoCell(order, q, nv, i) ==
  wenoValue(order, q, nv, i,
            vec([k \in 0 .. order - 1 |-> betaAt(order, q, nv, k, i)]))

weno(order, q) ==
  LET n == ncols(q)
      qL(nv, i) == IF i \in wenoRange(order, n) THEN wenoCell(order, q, nv, i) ELSE 0
  IN array(n, qL)

(***************************************************************************)
(* Grid1d.  A state array is q[c][i], c in 0..2 (density, momentum,        *)
(* energy), i in 0..nx+2*ng-1.                                             *)
(***************************************************************************)
ncells(nx, ng) == nx + 2 * ng
ilo_of(nx, ng) == ng
ihi_of(nx, ng) == ng + nx - 1

\* numpy.zeros((3, nx+2*ng)): self.q at construction, and scratch_array()
scratch_array(nx, ng) ==
  LET zero(c, i) == 0
  IN array(ncells(nx, ng), zero)

BCs == {"periodic", "outflow"}

\* a variant of fill_periodic: the left ghost cells are copied from one cell
\* too far left, q[:, 0:ilo] = q[:, ihi-ng:ihi]
fill_periodic_shifted(q, nx, ng) ==
  LET ilo == ilo_of(nx, ng)
      ihi == ihi_of(nx, ng)
      l(c, i) == IF i < ilo THEN q[c][(ihi - ng) + i] ELSE q[c][i]
      left == array(ncells(nx, ng), l)
      r(c, i) == IF i > ihi THEN left[c][ilo + (i - (ihi + 1))] ELSE left[c][i]
  IN array(ncells(nx, ng), r)

\* the periodic branch: each slice assignment reads its whole right-hand side
\* and then writes; the second reads what the first left
\*   q[:, 0:ilo] = q[:, ihi-ng+1:ihi+1];  q[:, ihi+1:] = q[:, ilo:ilo+ng]
fill_periodic(q, nx, ng) ==
  LET ilo == ilo_of(nx, ng)
      ihi == ihi_of(nx, ng)
      l(c, i) == IF i < ilo THEN q[c][(ihi - ng + 1) + i] ELSE q[c][i]
      left == array(ncells(nx, ng), l)
      r(c, i) == IF i > ihi THEN left[c][ilo + (i - (ihi + 1))] ELSE left[c][i]
  IN array(ncells(nx, ng), r)

\* a variant of fill_outflow: the two edge cells exchanged
fill_outflow_swapped(q, nx, ng) ==
  LET ilo == ilo_of(nx, ng)
      ihi == ihi_of(nx, ng)
      f(c, i) == IF i < ng THEN q[c][ihi]
                 ELSE IF i >= ihi + 1 /\ i < ihi + 1 + ng THEN q[c][ilo]
                 ELSE q[c][i]
  IN array(ncells(nx, ng), f)

\* the outflow branch:
\*   for n in range(ng): q[:, n] = q[:, ilo]; q[:, ihi+1+n] = q[:, ihi]
fill_outflow(q, nx, ng) ==
  LET ilo == ilo_of(nx, ng)
      ihi == ihi_of(nx, ng)
      f(c, i) == IF i < ng THEN q[c][ilo]
                 ELSE IF i >= ihi + 1 /\ i < ihi + 1 + ng THEN q[c][ihi]
                 ELSE q[c][i]
  IN array(ncells(nx, ng), f)

\* fill_BCs on a grid whose bc is one of BCs (any other bc: sys.exit, see FillBCs)
fill_BCs(q, nx, ng, bc) ==
  IF bc = "periodic" THEN fill_periodic(q, nx, ng) ELSE fill_outflow(q, nx, ng)

(***************************************************************************)
(* WENOSimulation: euler_flux and rk_substep.                              *)
(***************************************************************************)
\* eos_gamma = 1.4
eos_gamma == Rat(14, 10)

euler_flux(q) ==
  LET n == ncols(q)
      v == vec([i \in 0 .. n - 1 |-> Div(q[1][i], q[0][i])])
      p == vec([i \in 0 .. n - 1 |->
              Mul(Sub(eos_gamma, 1),
                  Sub(q[2][i], Div(Mul(q[0][i], Mul(v[i], v[i])), 2)))])
      flux(c, i) == IF c = 0 THEN q[1][i]
                    ELSE IF c = 1 THEN Add(Mul(q[1][i], v[i]), p[i])
                    ELSE Mul(Add(q[2][i], p[i]), v[i])
  IN array(n, flux)

\* abs() of a number: the model reads a residue above Modulus/2 as the
\* negative integer it is the residue of (exact for the integers of
\* magnitude below Modulus/2; for any other number a value the state fixes)
absval(x) == IF x = NaN THEN NaN ELSE IF 2 * x > Modulus THEN Modulus - x ELSE x

\* numpy.max(abs(q)): NaN when an entry is NaN
maxabs(q) ==
  LET n == ncols(q)
      vals == {absval(q[c][i]) : c \in 0 .. 2, i \in 0 .. n - 1}
  IN IF NaN \in vals THEN NaN
     ELSE CHOOSE m \in vals : \A y \in vals : y <= m

\* a[:, :-1]
drop_last(a, n) ==
  LET f(c, j) == a[c][j]
  IN array(n - 1, f)

\* a[:, -1::-1]
reversed(a, n) ==
  LET f(c, j) == a[c][n - 1 - j]
  IN array(n, f)

\* fpr[:, 1:] = weno(order, fp[:, :-1]) on fpr = scratch_array()
fpr_of(order, fp, n) ==
  LET W == weno(order, drop_last(fp, n))
      f(c, j) == IF j = 0 THEN 0 ELSE W[c][j - 1]
  IN array(n, f)

\* fml[:, -1::-1] = weno(order, fm[:, -1::-1]) on fml = scratch_array()
fml_of(order, fm, n) == reversed(weno(order, reversed(fm, n)), n)

\* flux[:, 1:-1] = fpr[:, 1:-1] + fml[:, 1:-1] on flux = scratch_array()
flux_of(fpr, fml, n) ==
  LET f(c, j) == IF j >= 1 /\ j <= n - 2 THEN Add(fpr[c][j], fml[c][j]) ELSE 0
  IN array(n, f)

\* rhs[:, 1:-1] = 1/g.dx * (flux[:, 1:-1] - flux[:, 2:]) on rhs = scratch_array()
rhs_of(flux, inv_dx, n) ==
  LET f(c, j) == IF j >= 1 /\ j <= n - 2
                 THEN Mul(inv_dx, Sub(flux[c][j], flux[c][j + 1])) ELSE 0
  IN array(n, f)

\* the numerical flux of rk_substep, from g.q as fill_BCs left it
substep_flux(order, q) ==
  LET n == ncols(q)
      f == euler_flux(q)
      alpha == maxabs(q)
      plus(c, i) == Div(Add(f[c][i], Mul(alpha, q[c][i])), 2)
      minus(c, i) == Div(Sub(f[c][i], Mul(alpha, q[c][i])), 2)
      fp == array(n, plus)
      fm == array(n, minus)
  IN flux_of(fpr_of(order, fp, n), fml_of(order, fm, n), n)

\* rk_substep after its fill_BCs: the right-hand side
rk_substep(order, q, inv_dx) ==
  rhs_of(substep_flux(order, q), inv_dx, ncols(q))

(***************************************************************************)
(* Grid coordinates and init_cond.  The domain has xmax - xmin = 1; xmin   *)
(* is xmin2/2 for an integer xmin2.                                        *)
(***************************************************************************)
\* dx = (xmax - xmin)/nx
dx_of(nx) == Rat(1, nx)

\* x[i] = xmin + (i - ng + 0.5)*dx, as the integer x_num(...)/(2*nx)
x_num(nx, ng, xmin2, i) == nx * xmin2 + 2 * (i - ng) + 1
x_of(nx, ng, xmin2, i) == Rat(x_num(nx, ng, xmin2, i), 2 * nx)

\* numpy.exp(u), u <= 0.  exp has no rational value: the model uses the
\* rational function 1/(1 - u), which like exp is 1 at 0, positive, and
\* decreasing towards 0 as u decreases
exp_of(u) == Div(1, Sub(1, u))

\* type == "sod": the three rows written by numpy.where(x < 0, left, right)
sod(nx, ng, xmin2) ==
  LET rho_l == 1
      rho_r == Rat(1, 8)
      v_l == 0
      v_r == 0
      p_l == 1
      p_r == Rat(1, 10)
      S_l == Mul(rho_l, v_l)
      S_r == Mul(rho_r, v_r)
      e_l == Div(Div(p_l, rho_l), Sub(eos_gamma, 1))
      e_r == Div(Div(p_r, rho_r), Sub(eos_gamma, 1))
      E_l == Mul(rho_l, Add(e_l, Div(Mul(v_l, v_l), 2)))
      E_r == Mul(rho_r, Add(e_r, Div(Mul(v_r, v_r), 2)))
      left(i) == x_num(nx, ng, xmin2, i) < 0
      f(c, i) == IF c = 0 THEN (IF left(i) THEN rho_l ELSE rho_r)
                 ELSE IF c = 1 THEN (IF left(i) THEN S_l ELSE S_r)
                 ELSE (IF left(i) THEN E_l ELSE E_r)
  IN array(ncells(nx, ng), f)

\* type == "advection"
advection(nx, ng, xmin2) ==
  LET rho_0 == Rat(1, 100)
      rho_1 == 1
      sigma == Rat(1, 10)
      rho(i) ==
        LET d == Sub(x_of(nx, ng, xmin2, i), Rat(1, 2))
        IN Add(rho_0,
               Mul(Sub(rho_1, rho_0),
                   exp_of(Sub(0, Div(Mul(d, d), Mul(sigma, sigma))))))
      v == 1
      p == PowMod(Rat(1, 10), 6)
      e(i) == Div(Div(p, rho(i)), Sub(eos_gamma, 1))
      f(c, i) == IF c = 0 THEN rho(i)
                 ELSE IF c = 1 THEN Mul(rho(i), v)
                 ELSE Mul(rho(i), Add(e(i), Div(Mul(v, v), 2)))
  IN array(ncells(nx, ng), f)

\* init_cond(type) on a grid whose state is q: no branch for any other type
init_cond(type, q, nx, ng, xmin2) ==
  IF type = "sod" THEN sod(nx, ng, xmin2)
  ELSE IF type = "advection" THEN advection(nx, ng, xmin2)
  ELSE q

(***************************************************************************)
(* The run: Grid1d(...), WENOSimulation(...), init_cond(type), evolve(tmax)*)
(* Time is counted in whole ticks (an integer, or NaN).                    *)
(***************************************************************************)
\* bounds of the model
MaxNx == 3
MaxT == 2

VARIABLES
  nx, ng, bc, xmin2,   \* Grid1d: nx, ng, bc, xmin (twice)
  weno_order,          \* WENOSimulation.weno_order
  q,                   \* grid.q
  t,                   \* WENOSimulation.t
  ic,                  \* the type init_cond was called with ("none": not called)
  tmax, dt, q_start, k, stage,   \* evolve's arguments and locals
  cs_nan,              \* timestep: the cells whose sound speed cs is NaN
  faces,               \* rk_substep: the faces j whose fpr[j] and fml[j] weno wrote
  pc,                  \* where the run stands
  w_order, w_q,        \* a call weno(order, q): its arguments,
  w_nv, w_beta, w_qL   \* the loop variable nv, and the arrays beta and qL

run == << nx, ng, bc, xmin2, weno_order, q, t, ic, tmax, dt, q_start, k,
          stage, cs_nan, faces, pc >>

call == << w_order, w_q, w_nv, w_beta, w_qL >>

vars == << run, call >>

grid == << nx, ng, bc, xmin2, weno_order >>

\* float64 comparison and addition of times
t_lt(a, b) == a # NaN /\ b # NaN /\ a < b
t_add(a, b) == IF a = NaN \/ b = NaN THEN NaN ELSE a + b
t_sub(a, b) == IF a = NaN \/ b = NaN THEN NaN ELSE a - b

\* a time as a number of the arithmetic
num(a) == IF a = NaN THEN NaN ELSE a % Modulus

N == ncells(nx, ng)
ilo == ilo_of(nx, ng)
ihi == ihi_of(nx, ng)

\* elementwise a + c*b on state arrays
axpy(a, c, b) ==
  LET f(comp, i) == Add(a[comp][i], Mul(c, b[comp][i]))
  IN array(ncols(a), f)

Init ==
  /\ weno_order \in Orders
  /\ ng \in {weno_order, weno_order + 1}
  /\ nx \in 1 .. MaxNx
  /\ bc \in BCs \cup {"reflect"}
  /\ xmin2 \in {-1, 0}
  /\ q = scratch_array(nx, ng)
  /\ t = 0
  /\ ic = "none"
  /\ tmax = 0
  /\ dt = 0
  /\ q_start = scratch_array(nx, ng)
  /\ k = [s \in 1 .. 4 |-> scratch_array(nx, ng)]
  /\ stage = 0
  /\ cs_nan = {}
  /\ faces = {}
  /\ pc = "new"
  /\ w_order = 0 /\ w_q = << >> /\ w_nv = 0 /\ w_beta = << >> /\ w_qL = << >>

\* s.init_cond(type)
InitCond ==
  /\ pc = "new"
  /\ ic = "none"
  /\ \E type \in {"sod", "advection", "shock"} :
       /\ ic' = type
       /\ q' = init_cond(type, q, nx, ng, xmin2)
  /\ UNCHANGED << call, grid, t, tmax, dt, q_start, k, stage, cs_nan, faces, pc >>

\* s.evolve(tmax), up to the loop's test: self.t = 0.0
Evolve ==
  /\ pc = "new"
  /\ \E tm \in 0 .. MaxT : tmax' = tm
  /\ t' = 0
  /\ pc' = "loop"
  /\ UNCHANGED << call, grid, q, ic, dt, q_start, k, stage, cs_nan, faces >>

\* while self.t < tmax
LoopTest ==
  /\ pc = "loop"
  /\ pc' = IF t_lt(t, tmax) THEN "fill" ELSE "done"
  /\ UNCHANGED << call, grid, q, t, ic, tmax, dt, q_start, k, stage, cs_nan, faces >>

\* a variant of FillBCs: a bc that is neither kind is passed over in silence
FillBCs_lenient ==
  /\ pc = "fill"
  /\ q' = (IF bc \in BCs THEN fill_BCs(q, nx, ng, bc) ELSE q)
  /\ pc' = "timestep"
  /\ UNCHANGED << call, grid, t, ic, tmax, dt, q_start, k, stage, cs_nan, faces >>

\* g.fill_BCs() of the loop body; sys.exit("invalid BC") for any other bc
FillBCs ==
  /\ pc = "fill"
  /\ IF bc \in BCs
     THEN q' = fill_BCs(q, nx, ng, bc) /\ pc' = "timestep"
     ELSE q' = q /\ pc' = "exit"
  /\ UNCHANGED << call, grid, t, ic, tmax, dt, q_start, k, stage, cs_nan, faces >>

\* The cells whose cs = sqrt(gamma*p/rho) is NaN.  v = q[1]/rho and p are NaN
\* where rho is 0 or the state is NaN.  The sign of gamma*p/rho is not a
\* property of a residue: neg names the physical cells where it is negative,
\* and every cell holding the same state as one of them has the same cs.
nan_cells(state, neg) ==
  {j \in 0 .. N - 1 :
     \/ Div(state[1][j], state[0][j]) = NaN
     \/ state[2][j] = NaN
     \/ \E i \in neg : \A c \in 0 .. 2 : state[c][j] = state[c][i]}

\* max(numpy.abs(v) + cs), Python's max over the array: it keeps its first
\* element unless a later one compares greater, and no comparison with NaN
\* is true, so the result is NaN exactly when element 0 is
max_lambda_is_nan(nans) == 0 \in nans

\* dt = self.timestep(); if self.t + dt > tmax: dt = tmax - self.t
\* In the first pass of the loop g.q is what init_cond left: states of
\* positive density and pressure, or zeros.  Later the sign is open.
Timestep ==
  /\ pc = "timestep"
  /\ \E neg \in {{}} \cup {{i} : i \in IF t = 0 THEN {} ELSE {ilo, ihi}},
        d \in 1 .. MaxT :
       LET nans == nan_cells(q, neg)
           dt0 == IF max_lambda_is_nan(nans) THEN NaN ELSE d
       IN /\ cs_nan' = nans
          /\ dt' = IF t_lt(tmax, t_add(t, dt0)) THEN t_sub(tmax, t) ELSE dt0
  /\ pc' = "copy"
  /\ UNCHANGED << call, grid, q, t, ic, tmax, q_start, k, stage, faces >>

\* q_start = g.q.copy()
CopyStart ==
  /\ pc = "copy"
  /\ q_start' = q
  /\ stage' = 1
  /\ pc' = "rk_fill"
  /\ UNCHANGED << call, grid, q, t, ic, tmax, dt, k, cs_nan, faces >>

\* a variant of RkFill: rk_substep without its fill_BCs
RkFill_skipped ==
  /\ pc = "rk_fill"
  /\ IF bc \in BCs
     THEN q' = q /\ pc' = "rk_flux"
     ELSE q' = q /\ pc' = "exit"
  /\ UNCHANGED << call, grid, t, ic, tmax, dt, q_start, k, stage, cs_nan, faces >>

\* rk_substep: g.fill_BCs()
RkFill ==
  /\ pc = "rk_fill"
  /\ IF bc \in BCs
     THEN q' = fill_BCs(q, nx, ng, bc) /\ pc' = "rk_flux"
     ELSE q' = q /\ pc' = "exit"
  /\ UNCHANGED << call, grid, t, ic, tmax, dt, q_start, k, stage, cs_nan, faces >>

\* the faces j of flux[:, 1:-1] that both weno calls wrote:
\* fpr[:, 1:] = weno(...fp[:, :-1]) and fml[:, -1::-1] = weno(...fm[:, -1::-1])
faces_written(order, n) ==
  {j \in 1 .. n - 2 :
     /\ j - 1 \in wenoRange(order, n - 1)
     /\ n - 1 - j \in wenoRange(order, n)}

\* k<stage> = dt * self.rk_substep(), after the fill
RkFlux ==
  /\ pc = "rk_flux"
  /\ k' = [k EXCEPT ![stage] =
             axpy(scratch_array(nx, ng), num(dt),
                  rk_substep(weno_order, q, Div(1, dx_of(nx))))]
  /\ faces' = faces_written(weno_order, N)
  /\ pc' = "rk_assign"
  /\ UNCHANGED << call, grid, q, t, ic, tmax, dt, q_start, stage, cs_nan >>

\* a variant of stage_state: the fourth stage starts from q_start + k3 / 2
stage_state_half(s, qs, kk) ==
  IF s = 1 THEN axpy(qs, Rat(1, 2), kk[1])
  ELSE IF s = 2 THEN axpy(qs, Rat(1, 2), kk[2])
  ELSE IF s = 3 THEN axpy(qs, Rat(1, 2), kk[3])
  ELSE axpy(qs, Rat(1, 6),
            axpy(axpy(kk[1], 2, axpy(kk[2], 1, kk[3])), 1, kk[4]))

\* what g.q is bound to after the stage
stage_state(s, qs, kk) ==
  IF s = 1 THEN axpy(qs, Rat(1, 2), kk[1])
  ELSE IF s = 2 THEN axpy(qs, Rat(1, 2), kk[2])
  ELSE IF s = 3 THEN axpy(qs, 1, kk[3])
  ELSE axpy(qs, Rat(1, 6),
            axpy(axpy(kk[1], 2, axpy(kk[2], 1, kk[3])), 1, kk[4]))

\* g.q = q_start + k1 / 2, ..., g.q = q_start + (k1 + 2 * (k2 + k3) + k4) / 6
RkAssign ==
  /\ pc = "rk_assign"
  /\ q' = stage_state(stage, q_start, k)
  /\ IF stage < 4
     THEN stage' = stage + 1 /\ pc' = "rk_fill"
     ELSE stage' = stage /\ pc' = "advance"
  /\ UNCHANGED << call, grid, t, ic, tmax, dt, q_start, k, cs_nan, faces >>

\* self.t += dt
Advance ==
  /\ pc = "advance"
  /\ t' = t_add(t, dt)
  /\ pc' = "loop"
  /\ UNCHANGED << call, grid, q, ic, tmax, dt, q_start, k, stage, cs_nan, faces >>

Next ==
  \/ InitCond
  \/ Evolve
  \/ LoopTest
  \/ FillBCs
  \/ Timestep
  \/ CopyStart
  \/ RkFill
  \/ RkFlux
  \/ RkAssign
  \/ Advance

Spec == Init /\ [][Next]_vars

(***************************************************************************)
(* One call weno(order, q), loop by loop: a step is one pass of            *)
(* for nv in range(3).  The run's variables stay at the values of Idle.    *)
(***************************************************************************)
\* number of cells of the argument beyond the 2*order that the loop skips
WenoCells == 2

Profiles == {"flat", "step", "ramp"}

\* the row of a component: constant, a jump in the middle, or a slope
profile(p, order, i) ==
  IF p = "flat" THEN 1
  ELSE IF p = "step" THEN (IF i <= order THEN 2 ELSE 1)
  ELSE i + 1

Idle ==
  /\ nx = 0 /\ ng = 0 /\ bc = "outflow" /\ xmin2 = 0 /\ weno_order = 0
  /\ q = << >> /\ t = 0 /\ ic = "none" /\ tmax = 0 /\ dt = 0
  /\ q_start = << >> /\ k = << >> /\ stage = 0 /\ cs_nan = {} /\ faces = {}
  /\ pc = "weno"

\* entry of weno: qL = zeros_like(q), beta = zeros((order, q.shape[1]))
WenoInit ==
  /\ Idle
  /\ w_order \in Orders
  /\ \E p \in [0 .. 2 -> Profiles] :
       w_q = array(2 * w_order + WenoCells,
                   LAMBDA c, i : profile(p[c], w_order, i))
  /\ w_nv = 0
  /\ w_beta = vec([kk \in 0 .. w_order - 1 |->
                 vec([i \in 0 .. 2 * w_order + WenoCells - 1 |-> 0])])
  /\ w_qL = array(2 * w_order + WenoCells, LAMBDA c, i : 0)

\* one pass of the loop on nv: beta[k, i] += ..., then qL[nv, i]
WenoComponent ==
  /\ pc = "weno"
  /\ w_nv < 3
  /\ LET n == ncols(w_q)
         beta == vec([kk \in 0 .. w_order - 1 |->
                   vec([i \in 0 .. n - 1 |->
                      IF i \in wenoRange(w_order, n)
                      THEN Add(w_beta[kk][i],
                               betaIncrement(w_order, w_q, w_nv, kk, i))
                      ELSE w_beta[kk][i]])])
     IN /\ w_beta' = beta
        /\ w_qL' = [w_qL EXCEPT ![w_nv] =
                      vec([i \in 0 .. n - 1 |->
                         IF i \in wenoRange(w_order, n)
                         THEN wenoValue(w_order, w_q, w_nv, i,
                                vec([kk \in 0 .. w_order - 1 |-> beta[kk][i]]))
                         ELSE 0])]
  /\ w_nv' = w_nv + 1
  /\ UNCHANGED << run, w_order, w_q >>

\* return qL
WenoReturn ==
  /\ pc = "weno"
  /\ w_nv = 3
  /\ pc' = "returned"
  /\ UNCHANGED << call, grid, q, t, ic, tmax, dt, q_start, k, stage, cs_nan, faces >>

WenoNext ==
  \/ WenoComponent
  \/ WenoReturn

SpecWeno == WenoInit /\ [][WenoNext]_vars

\* the loop returns what the operator weno gives
WenoLoopIsWeno == (pc = "returned") => (w_qL = weno(w_order, w_q))

(***************************************************************************)
(* Vocabulary of the properties                                            *)
(***************************************************************************)
Stages == {"rk_fill", "rk_flux", "rk_assign"}

\* every entry of the array is a number
Finite(a) == \A c \in 0 .. 2 : \A i \in DOMAIN a[c] : a[c][i] # NaN

\* a and b agree on the physical cells
SamePhysical(a, b) == \A c \in 0 .. 2 : \A i \in ilo .. ihi : a[c][i] = b[c][i]

\* the physical cells of a hold qs + w * ks
PhysicalIs(a, qs, w, ks) ==
  \A c \in 0 .. 2 : \A i \in ilo .. ihi : a[c][i] = Add(qs[c][i], Mul(w, ks[c][i]))

\* sum of the density over the physical cells, times dx
mass(a) == Mul(SumF(a[0], ilo, ihi), dx_of(nx))

\* the ghost cells hold what the boundary kind prescribes from the physical
\* cells: the edge cell (outflow), the cell one period away (periodic)
GhostsConsistent(a) ==
  \A c \in 0 .. 2 : \A i \in (0 .. ilo - 1) \cup (ihi + 1 .. N - 1) :
    IF bc = "outflow"
    THEN a[c][i] = a[c][IF i < ilo THEN ilo ELSE ihi]
    ELSE a[c][i] = a[c][ilo + ((i - ilo) % nx)]

(***************************************************************************)
(* Properties                                                              *)
(***************************************************************************)
\* C1, as stated: with ng >= weno_order, after rk_substep's two weno calls
\* every face ilo..ihi+1 of the flux array has been written by both.
C1_AllFacesPopulated ==
  (pc = "rk_assign") => (ilo .. ihi + 1) \subseteq faces

\* C1, amended: the faces ilo..ihi+1 are all written by both reconstructions
\* when ng >= weno_order + 1.
C1_FacesPopulatedWithMargin ==
  (pc = "rk_assign" /\ ng >= weno_order + 1) => (ilo .. ihi + 1) \subseteq faces

C1_Witness ==
  /\ pc = "rk_assign" /\ stage = 4 /\ ng = weno_order + 1 /\ nx > 1
  /\ (ilo .. ihi + 1) \subseteq faces
  /\ Finite(q)

\* C2, as stated: through the four stages grid.q keeps the value it had when
\* the step began.
C2_CanonicalStateKept ==
  (pc \in Stages) => SamePhysical(q, q_start)

\* C2, amended: q_start keeps the pre-step state; grid.q is rebound after
\* every stage: it is q_start in stage 1, q_start + k1/2 in stage 2,
\* q_start + k2/2 in stage 3, q_start + k3 in stage 4, and
\* q_start + (k1 + 2 (k2 + k3) + k4)/6 once stage 4 is done.
C2_StageStates ==
  /\ (pc \in Stages /\ stage = 1) => SamePhysical(q, q_start)
  /\ (pc \in {"rk_fill", "rk_flux"} /\ stage = 2)
        => PhysicalIs(q, q_start, Rat(1, 2), k[1])
  /\ (pc \in {"rk_fill", "rk_flux"} /\ stage = 3)
        => PhysicalIs(q, q_start, Rat(1, 2), k[2])
  /\ (pc \in {"rk_fill", "rk_flux"} /\ stage = 4)
        => PhysicalIs(q, q_start, 1, k[3])
  /\ (pc = "advance")
        => \A c \in 0 .. 2 : \A i \in ilo .. ihi :
             q[c][i] = Add(q_start[c][i],
                           Mul(Rat(1, 6),
                               Add(Add(k[1][c][i], k[4][c][i]),
                                   Mul(2, Add(k[2][c][i], k[3][c][i])))))

C2_Witness ==
  /\ pc = "rk_flux" /\ stage = 3
  /\ Finite(q)
  /\ ~ SamePhysical(q, q_start)

C3_BetaPerComponent ==
  (pc = "weno" /\ w_nv >= 1) =>
     \A kk \in 0 .. w_order - 1 : \A i \in wenoRange(w_order, ncols(w_q)) :
        w_beta[kk][i] = betaIncrement(w_order, w_q, w_nv - 1, kk, i)

\* C4: t is a number, never exceeds tmax, and is tmax when evolve returns.
C4_TimeReachesTmax ==
  /\ t # NaN
  /\ (pc \notin {"new", "weno", "returned"}) => t <= tmax
  /\ (pc = "done") => t = tmax

C7_UnknownSelectorFatal ==
  (ic \notin {"none", "sod", "advection"}) => pc = "exit"

\* C8, as stated: with an unknown boundary kind the run is fatal before
\* anything is written or computed, whatever tmax.
C8_NoPartialExecution ==
  (bc \notin BCs) =>
     /\ q = scratch_array(nx, ng)
     /\ pc # "done"

\* C8, amended: with an unknown boundary kind the first fill_BCs of evolve
\* exits: no dt is computed, no stage runs, t stays 0 and grid.q keeps what
\* init_cond left; evolve returns normally only if tmax <= 0.
C8_InvalidBCFatal ==
  (bc \notin BCs) =>
     /\ pc \in {"new", "loop", "fill", "exit", "done"}
     /\ t = 0 /\ dt = 0 /\ stage = 0
     /\ q = init_cond(ic, scratch_array(nx, ng), nx, ng, xmin2)
     /\ (pc = "done") => tmax = 0
     /\ (pc = "exit") => tmax > 0

C8_Witness ==
  /\ bc \notin BCs /\ pc = "exit" /\ ic = "sod"
  /\ q # scratch_array(nx, ng)

\* C9: once a cell of a state with nonzero densities has no sound speed
\* (negative pressure or density), the step is not carried out: t is not
\* advanced and evolve does not return normally.
C9_InstabilityStops ==
  (cs_nan # {} /\ \A i \in 0 .. N - 1 : q_start[0][i] \notin {0, NaN})
     => pc \notin {"advance", "loop", "fill", "done"}

====
